---------------------------- MODULE Spec2Model ----------------------------
(***************************************************************************)
(* Model of the chunked upload client of src/app.py: the two upload        *)
(* functions upload_fastq and upload_annotation, the dispatch at the end   *)
(* of the script that calls one of them, the HTTP server they post to and  *)
(* the filesystem they read from.                                          *)
(*                                                                         *)
(* A file is modelled by its length: a chunk is the number of bytes that   *)
(* file.read returned.  A file name is the sequence of its dot-separated   *)
(* components ("a.fastq.gz" is <<"a", "fastq", "gz">>).  The server is     *)
(* free in what it answers: any status, a JSON object with or without an   *)
(* upload_id, or (on a non-200 status) free text; a request may also fail  *)
(* in transport.  Following the wire protocol a status-200 body is a JSON  *)
(* object, and a file does not change while it is being uploaded.          *)
(***************************************************************************)
EXTENDS Integers, Sequences, FiniteSets, TLC

\* ------------------------------------------------------------------ bounds
\* The files of one run hold at most MaxBytes bytes together, so a single
\* file has 0..MaxBytes bytes.
MaxBytes == 4
\* Largest chunk_size the uploader is called with (the code's default is 10 MiB).
MaxChunk == 2

\* ------------------------------------------------------- values of the model
\* Python's None (no upload_id assigned yet); the server's ids never equal it.
None == "None"

contact_message == "Please contact system administrator (pinghanh@pharusdx.com, timmyhsieh@pharusdx.com)"

\* The upload_id values a response may carry; "" is an empty (falsy) id.
UploadIds == {"A", "B", ""}

\* File names, as sequences of dot-separated components.
NameA == <<"a", "fastq", "gz">>
NameB == <<"b", "fastq", "gz">>
NameC == <<"c", "txt">>
NameX == <<"x", "bin">>

\* Directory entries: the entry's name and the base name of its real path
\* (they differ when the entry is a symbolic link).
DirEntries ==
    { [name |-> NameA, real |-> NameA],
      [name |-> NameB, real |-> NameB],
      [name |-> NameB, real |-> NameX],
      [name |-> NameC, real |-> NameC] }

RECURSIVE SeqsOver(_, _)
\* All sequences of entries of S with pairwise different names, of length <= n.
SeqsOver(S, n) ==
    IF n = 0 THEN {<<>>}
    ELSE LET shorter == SeqsOver(S, n - 1)
         IN  shorter \cup
             { Append(q, e) : q \in { r \in shorter : Len(r) = n - 1 },
                              e \in S }

DistinctNames(q) ==
    \A i, j \in 1..Len(q) : i # j => q[i].name # q[j].name

\* What os.listdir may yield: the entries of a directory in any order.
Listings == { q \in SeqsOver(DirEntries, 3) : DistinctNames(q) }

\* The command lines the model runs: `upload --fastq-dir D` and
\* `annotate --annotation-file F`.
ArgsSet ==
    { [command |-> "upload", fastq_dir |-> d] : d \in Listings } \cup
    { [command |-> "annotate", annotation_file |-> e] : e \in DirEntries }

\* Response bodies: a JSON object (its keys are the record's fields) or text
\* that is not JSON.
JsonBodies ==
    { [kind |-> "json", data |-> [upload_id |-> u]] : u \in UploadIds } \cup
    { [kind |-> "json", data |-> [message |-> "ok"]] }

TextBody == [kind |-> "text"]

\* The server's answers: status 200 with a JSON object, or status 500 with a
\* JSON object or free text.
Responses ==
    { [status_code |-> 200, body |-> b] : b \in JsonBodies } \cup
    { [status_code |-> 500, body |-> b] : b \in JsonBodies \cup {TextBody} }

VARIABLES
    args,               \* the parsed command line
    chunk_size,         \* the chunk_size parameter
    pc,                 \* position of the script
    matching_files,     \* upload_fastq: the entries that matched
    index,              \* upload_fastq: loop index (0-based)
    is_last_file,       \* upload_fastq: flag of the current file
    n_files,
    n_uploaded_files,
    file_name,          \* base name of the real path of the current file
    file_size,          \* os.path.getsize, taken when the file is opened
    file_pos,           \* read position of the open file
    chunk,              \* length of the chunk read last
    upload_id,
    uploaded,
    part_number,
    progress_bar,       \* tqdm's counter n
    exception,          \* the exception that left the script, or None
    network,            \* the requests in flight
    sent,               \* history: every request posted, with its session
    received,           \* history: every response received, with its session
    opened,             \* history: the size of every file opened, in order
    output              \* history: what was printed

vars == << args, chunk_size, pc, matching_files, index, is_last_file, n_files,
           n_uploaded_files, file_name, file_size, file_pos, chunk, upload_id,
           uploaded, part_number, progress_bar, exception, network, sent,
           received, opened, output >>

\* --------------------------------------------------------- pure functions
Min(a, b) == IF a <= b THEN a ELSE b

\* f.endswith('.fastq.gz') on a name given by its components.
EndsWithFastqGz(f) ==
    /\ Len(f) >= 3
    /\ f[Len(f) - 1] = "fastq"
    /\ f[Len(f)] = "gz"

RECURSIVE MatchingFilesReversed(_)
\* Mutation of MatchingFiles: the matching entries in reverse listing order.
MatchingFilesReversed(dir) ==
    IF dir = <<>> THEN <<>>
    ELSE IF EndsWithFastqGz(Head(dir).name)
         THEN MatchingFilesReversed(Tail(dir)) \o <<Head(dir)>>
         ELSE MatchingFilesReversed(Tail(dir))

RECURSIVE MatchingFiles(_)
\* [f for f in os.listdir(fastq_dir) if f.endswith('.fastq.gz')]
MatchingFiles(dir) ==
    IF dir = <<>> THEN <<>>
    ELSE IF EndsWithFastqGz(Head(dir).name)
         THEN <<Head(dir)>> \o MatchingFiles(Tail(dir))
         ELSE MatchingFiles(Tail(dir))

\* os.path.basename(os.path.realpath(...)) of a directory entry.
BaseName(entry) == entry.real

\* Mutation of IsLastFile: the comparison is off by one.
IsLastFileOffByOne(i, files) == i = Len(files)

\* index == len(matching_files) - 1
IsLastFile(i, files) == i = Len(files) - 1

\* Mutation of ReadChunk: a trailing partial chunk is dropped.
ReadChunkDropsTail(pos, size, c) == IF size - pos >= c THEN c ELSE 0

\* Mutation of ReadChunk: a full buffer is sent although the file ended.
ReadChunkPastEnd(pos, size, c) == IF size - pos > 0 THEN c ELSE 0

\* len(file.read(chunk_size)) at read position pos of a file of size bytes.
ReadChunk(pos, size, c) == Min(c, size - pos)

\* Mutation of IsLastChunk: > in place of >=.
IsLastChunkStrict(up, len, size) == IF up + len > size THEN "true" ELSE "false"

\* 'true' if uploaded + len(chunk) >= file_size else 'false'
IsLastChunk(up, len, size) == IF up + len >= size THEN "true" ELSE "false"

\* Mutation of NextPartNumber: the increment is applied twice.
NextPartNumberSkips(part) == part + 2

\* Mutation of NextPartNumber: the increment is lost.
NextPartNumberStuck(part) == part

\* part_number += 1
NextPartNumber(part) == part + 1

\* Python truth of an upload_id: None and '' are false.
Truthy(u) == u # None /\ u # ""


\* Mutation of FastqData: offset is the position after the chunk.
FastqDataOffsetAfterChunk(fname, up, size, part, len, last_file, uid) ==
    LET data == [ filename      |-> fname,
                  offset        |-> up + len,
                  total_size    |-> size,
                  part_number   |-> part,
                  is_last_chunk |-> IsLastChunk(up, len, size),
                  name          |-> "experiment",
                  email         |-> "user@example.org",
                  is_last_file  |-> last_file,
                  annotation    |-> "False" ]
    IN  IF Truthy(uid) THEN data @@ [upload_id |-> uid] ELSE data

\* The form fields of a chunk request of upload_fastq (data, with the
\* upload_id key only when an upload_id is set) and the length of its file part.
FastqData(fname, up, size, part, len, last_file, uid) ==
    LET data == [ filename      |-> fname,
                  offset        |-> up,
                  total_size    |-> size,
                  part_number   |-> part,
                  is_last_chunk |-> IsLastChunk(up, len, size),
                  name          |-> "experiment",
                  email         |-> "user@example.org",
                  is_last_file  |-> last_file,
                  annotation    |-> "False" ]
    IN  IF Truthy(uid) THEN data @@ [upload_id |-> uid] ELSE data

\* The form fields of a chunk request of upload_annotation.
AnnotationData(fname, up, size, part, len, uid) ==
    LET data == [ filename      |-> fname,
                  offset        |-> up,
                  total_size    |-> size,
                  part_number   |-> part,
                  is_last_chunk |-> IF up + len >= size THEN "true" ELSE "false",
                  name          |-> "experiment",
                  email         |-> "user@example.org",
                  annotation    |-> "True" ]
    IN  IF Truthy(uid) THEN data @@ [upload_id |-> uid] ELSE data

\* Mutation of NextUploadId: an upload_id already recorded is kept.
NextUploadIdKeepsFirst(uid, response_data) ==
    IF "upload_id" \in DOMAIN response_data /\ uid = None
    THEN response_data.upload_id
    ELSE uid

\* if 'upload_id' in response_data: upload_id = response_data['upload_id']
NextUploadId(uid, response_data) ==
    IF "upload_id" \in DOMAIN response_data
    THEN response_data.upload_id
    ELSE uid

RECURSIVE Sum(_)
\* The sum of a sequence of numbers.
Sum(q) == IF q = <<>> THEN 0 ELSE Head(q) + Sum(Tail(q))

\* The sizes os.path.getsize may report for the next file opened.
FileSizes == 0..(MaxBytes - Sum(opened))

\* The number of the session in progress (sessions are numbered from 1 in
\* the order their files are opened).
Session == Len(opened)

\* ------------------------------------------------------------------- Init
Init ==
    /\ args \in ArgsSet
    /\ chunk_size \in 1..MaxChunk
    /\ pc = "main"
    /\ matching_files = <<>>
    /\ index = 0
    /\ is_last_file = FALSE
    /\ n_files = 0
    /\ n_uploaded_files = 0
    /\ file_name = <<>>
    /\ file_size = 0
    /\ file_pos = 0
    /\ chunk = 0
    /\ upload_id = None
    /\ uploaded = 0
    /\ part_number = 1
    /\ progress_bar = 0
    /\ exception = None
    /\ network = {}
    /\ sent = <<>>
    /\ received = <<>>
    /\ opened = <<>>
    /\ output = <<>>

\* ----------------------------------------------------------- upload_fastq
\* The script calls upload_fastq: the directory is listed and filtered and
\* the counters are cleared.
ListFiles ==
    /\ pc = "main"
    /\ args.command = "upload"
    /\ matching_files' = MatchingFiles(args.fastq_dir)
    /\ n_files' = 0
    /\ n_uploaded_files' = 0
    /\ index' = 0
    /\ pc' = "for"
    /\ UNCHANGED << args, chunk_size, is_last_file, file_name, file_size,
                    file_pos, chunk, upload_id, uploaded, part_number,
                    progress_bar, exception, network, sent, received, opened,
                    output >>

\* Mutation of OpenFile: upload_id is not cleared for the next file.
OpenFileKeepsUploadId ==
    /\ pc = "for"
    /\ index < Len(matching_files)
    /\ \E size \in FileSizes :
          /\ file_size' = size
          /\ opened' = Append(opened, size)
    /\ is_last_file' = IsLastFile(index, matching_files)
    /\ file_name' = BaseName(matching_files[index + 1])
    /\ n_files' = n_files + 1
    /\ file_pos' = 0
    /\ progress_bar' = 0
    /\ uploaded' = 0
    /\ part_number' = 1
    /\ pc' = "read"
    /\ UNCHANGED << args, chunk_size, matching_files, index, n_uploaded_files,
                    chunk, upload_id, exception, network, sent, received,
                    output >>

\* The for loop takes the next file: its size is read once, the file and the
\* progress bar are opened and the session state is initialised.
OpenFile ==
    /\ pc = "for"
    /\ index < Len(matching_files)
    /\ \E size \in FileSizes :
          /\ file_size' = size
          /\ opened' = Append(opened, size)
    /\ is_last_file' = IsLastFile(index, matching_files)
    /\ file_name' = BaseName(matching_files[index + 1])
    /\ n_files' = n_files + 1
    /\ file_pos' = 0
    /\ progress_bar' = 0
    /\ upload_id' = None
    /\ uploaded' = 0
    /\ part_number' = 1
    /\ pc' = "read"
    /\ UNCHANGED << args, chunk_size, matching_files, index, n_uploaded_files,
                    chunk, exception, network, sent, received, output >>

\* One turn of the while loop up to the post: a non-empty chunk is read, the
\* request is built and sent, and the function waits for the response.
SendChunk ==
    /\ pc = "read"
    /\ LET len == ReadChunk(file_pos, file_size, chunk_size)
       IN  /\ len > 0
           /\ chunk' = len
           /\ file_pos' = file_pos + len
           /\ LET request ==
                    [ session |-> Session,
                      len     |-> len,
                      data    |-> FastqData(file_name, uploaded, file_size,
                                            part_number, len, is_last_file,
                                            upload_id) ]
              IN  /\ network' = network \cup {request}
                  /\ sent' = Append(sent, request)
    /\ pc' = "wait"
    /\ UNCHANGED << args, chunk_size, matching_files, index, is_last_file,
                    n_files, n_uploaded_files, file_name, file_size, upload_id,
                    uploaded, part_number, progress_bar, exception, received,
                    opened, output >>

\* Mutation of EndOfFile: the finished file is not counted.
EndOfFileNotCounted ==
    /\ pc = "read"
    /\ ReadChunk(file_pos, file_size, chunk_size) = 0
    /\ chunk' = 0
    /\ index' = index + 1
    /\ pc' = "for"
    /\ UNCHANGED << args, chunk_size, matching_files, is_last_file, n_files,
                    n_uploaded_files, file_name, file_size, file_pos, upload_id,
                    uploaded, part_number, progress_bar, exception, network,
                    sent, received, opened, output >>

\* The read returns no bytes: the while loop is left, the file is closed,
\* the file counts as uploaded and the for loop goes on.
EndOfFile ==
    /\ pc = "read"
    /\ ReadChunk(file_pos, file_size, chunk_size) = 0
    /\ chunk' = 0
    /\ n_uploaded_files' = n_uploaded_files + 1
    /\ index' = index + 1
    /\ pc' = "for"
    /\ UNCHANGED << args, chunk_size, matching_files, is_last_file, n_files,
                    file_name, file_size, file_pos, upload_id, uploaded,
                    part_number, progress_bar, exception, network, sent,
                    received, opened, output >>

\* Mutation of Respond: a non-200 status leaves the while loop (break) and
\* not the function (return), so the for loop goes on with the next file.
RespondBreaks ==
    /\ pc = "wait"
    /\ \E request \in network, response \in Responses :
          /\ network' = network \ {request}
          /\ received' = Append(received,
                                [session |-> Session, response |-> response])
          /\ IF response.body.kind # "json"
             THEN /\ exception' = "JSONDecodeError"
                  /\ pc' = "raised"
                  /\ UNCHANGED << upload_id, uploaded, progress_bar,
                                  part_number, output, index,
                                  n_uploaded_files >>
             ELSE /\ upload_id' = NextUploadId(upload_id, response.body.data)
                  /\ exception' = exception
                  /\ IF response.status_code # 200
                     THEN /\ output' = output \o
                                << [ kind |-> "text", status |-> response.status_code ],
                                   [ kind     |-> "failed",
                                     file     |-> file_name,
                                     position |-> << n_uploaded_files + 1, n_files >>,
                                     status   |-> response.status_code,
                                     contact  |-> contact_message ] >>
                          /\ n_uploaded_files' = n_uploaded_files + 1
                          /\ index' = index + 1
                          /\ pc' = "for"
                          /\ UNCHANGED << uploaded, progress_bar, part_number >>
                     ELSE /\ uploaded' = uploaded + chunk
                          /\ progress_bar' = progress_bar + chunk
                          /\ part_number' = NextPartNumber(part_number)
                          /\ pc' = "read"
                          /\ UNCHANGED << output, index, n_uploaded_files >>
    /\ UNCHANGED << args, chunk_size, matching_files, is_last_file, n_files,
                    file_name, file_size, file_pos, chunk, sent, opened >>

\* The response to the request in flight arrives and the rest of the loop
\* body runs: the body is parsed as JSON (text that is not JSON raises), the
\* upload_id is taken from it, a non-200 status prints and returns, and a
\* 200 advances the counters.
Respond ==
    /\ pc = "wait"
    /\ \E request \in network, response \in Responses :
          /\ network' = network \ {request}
          /\ received' = Append(received,
                                [session |-> Session, response |-> response])
          /\ IF response.body.kind # "json"
             THEN /\ exception' = "JSONDecodeError"
                  /\ pc' = "raised"
                  /\ UNCHANGED << upload_id, uploaded, progress_bar,
                                  part_number, output >>
             ELSE /\ upload_id' = NextUploadId(upload_id, response.body.data)
                  /\ exception' = exception
                  /\ IF response.status_code # 200
                     THEN /\ output' = output \o
                                << [ kind |-> "text", status |-> response.status_code ],
                                   [ kind     |-> "failed",
                                     file     |-> file_name,
                                     position |-> << n_uploaded_files + 1, n_files >>,
                                     status   |-> response.status_code,
                                     contact  |-> contact_message ] >>
                          /\ pc' = "returned"
                          /\ UNCHANGED << uploaded, progress_bar, part_number >>
                     ELSE /\ uploaded' = uploaded + chunk
                          /\ progress_bar' = progress_bar + chunk
                          /\ part_number' = NextPartNumber(part_number)
                          /\ pc' = "read"
                          /\ output' = output
    /\ UNCHANGED << args, chunk_size, matching_files, index, is_last_file,
                    n_files, n_uploaded_files, file_name, file_size, file_pos,
                    chunk, sent, opened >>

\* requests.post raises (connection failure, timeout): nothing in
\* upload_fastq catches it, so it leaves the function and the script.
TransportError ==
    /\ pc = "wait"
    /\ \E request \in network : network' = network \ {request}
    /\ exception' = "ConnectionError"
    /\ pc' = "raised"
    /\ UNCHANGED << args, chunk_size, matching_files, index, is_last_file,
                    n_files, n_uploaded_files, file_name, file_size, file_pos,
                    chunk, upload_id, uploaded, part_number, progress_bar,
                    sent, received, opened, output >>

\* The for loop is exhausted: the summary is printed and the function returns.
Complete ==
    /\ pc = "for"
    /\ index >= Len(matching_files)
    /\ output' = Append(output, [ kind     |-> "complete",
                                  uploaded |-> n_uploaded_files,
                                  files    |-> n_files ])
    /\ pc' = "returned"
    /\ UNCHANGED << args, chunk_size, matching_files, index, is_last_file,
                    n_files, n_uploaded_files, file_name, file_size, file_pos,
                    chunk, upload_id, uploaded, part_number, progress_bar,
                    exception, network, sent, received, opened >>


\* ------------------------------------------------------ upload_annotation
\* The script calls upload_annotation: the size of the file is read once,
\* the file and the progress bar are opened, the session state initialised.
AnnOpenFile ==
    /\ pc = "main"
    /\ args.command = "annotate"
    /\ \E size \in FileSizes :
          /\ file_size' = size
          /\ opened' = Append(opened, size)
    /\ file_name' = BaseName(args.annotation_file)
    /\ file_pos' = 0
    /\ progress_bar' = 0
    /\ upload_id' = None
    /\ uploaded' = 0
    /\ part_number' = 1
    /\ pc' = "ann_read"
    /\ UNCHANGED << args, chunk_size, matching_files, index, is_last_file,
                    n_files, n_uploaded_files, chunk, exception, network, sent,
                    received, output >>

\* One turn of the while loop up to the post.
AnnSendChunk ==
    /\ pc = "ann_read"
    /\ LET len == Min(chunk_size, file_size - file_pos)
       IN  /\ len > 0
           /\ chunk' = len
           /\ file_pos' = file_pos + len
           /\ LET request ==
                    [ session |-> Session,
                      len     |-> len,
                      data    |-> AnnotationData(file_name, uploaded, file_size,
                                                 part_number, len, upload_id) ]
              IN  /\ network' = network \cup {request}
                  /\ sent' = Append(sent, request)
    /\ pc' = "ann_wait"
    /\ UNCHANGED << args, chunk_size, matching_files, index, is_last_file,
                    n_files, n_uploaded_files, file_name, file_size, upload_id,
                    uploaded, part_number, progress_bar, exception, received,
                    opened, output >>

\* The read returns no bytes: the loop is left, the file is closed, the
\* success line is printed and the function returns.
AnnEndOfFile ==
    /\ pc = "ann_read"
    /\ Min(chunk_size, file_size - file_pos) = 0
    /\ chunk' = 0
    /\ output' = Append(output, [ kind |-> "annotation_complete",
                                  file |-> file_name ])
    /\ pc' = "returned"
    /\ UNCHANGED << args, chunk_size, matching_files, index, is_last_file,
                    n_files, n_uploaded_files, file_name, file_size, file_pos,
                    upload_id, uploaded, part_number, progress_bar, exception,
                    network, sent, received, opened >>

\* The response arrives and the rest of the loop body runs.
AnnRespond ==
    /\ pc = "ann_wait"
    /\ \E request \in network, response \in Responses :
          /\ network' = network \ {request}
          /\ received' = Append(received,
                                [session |-> Session, response |-> response])
          /\ IF response.body.kind # "json"
             THEN /\ exception' = "JSONDecodeError"
                  /\ pc' = "raised"
                  /\ UNCHANGED << upload_id, uploaded, progress_bar,
                                  part_number, output >>
             ELSE /\ upload_id' = IF "upload_id" \in DOMAIN response.body.data
                                  THEN response.body.data.upload_id
                                  ELSE upload_id
                  /\ exception' = exception
                  /\ IF response.status_code # 200
                     THEN /\ output' = output \o
                                << [ kind |-> "text", status |-> response.status_code ],
                                   [ kind    |-> "failed",
                                     file    |-> file_name,
                                     status  |-> response.status_code,
                                     contact |-> contact_message ] >>
                          /\ pc' = "returned"
                          /\ UNCHANGED << uploaded, progress_bar, part_number >>
                     ELSE /\ uploaded' = uploaded + chunk
                          /\ progress_bar' = progress_bar + chunk
                          /\ part_number' = part_number + 1
                          /\ pc' = "ann_read"
                          /\ output' = output
    /\ UNCHANGED << args, chunk_size, matching_files, index, is_last_file,
                    n_files, n_uploaded_files, file_name, file_size, file_pos,
                    chunk, sent, opened >>

\* requests.post raises: nothing in upload_annotation catches it.
AnnTransportError ==
    /\ pc = "ann_wait"
    /\ \E request \in network : network' = network \ {request}
    /\ exception' = "ConnectionError"
    /\ pc' = "raised"
    /\ UNCHANGED << args, chunk_size, matching_files, index, is_last_file,
                    n_files, n_uploaded_files, file_name, file_size, file_pos,
                    chunk, upload_id, uploaded, part_number, progress_bar,
                    sent, received, opened, output >>

\* ------------------------------------------------------------ specification
Next ==
    \/ ListFiles
    \/ OpenFile
    \/ SendChunk
    \/ EndOfFile
    \/ Respond
    \/ TransportError
    \/ Complete
    \/ AnnOpenFile
    \/ AnnSendChunk
    \/ AnnEndOfFile
    \/ AnnRespond
    \/ AnnTransportError

Spec == Init /\ [][Next]_vars

TypeOK ==
    /\ pc \in {"main", "for", "read", "wait", "ann_read", "ann_wait",
               "returned", "raised"}
    /\ uploaded \in 0..MaxBytes
    /\ Len(sent) >= Len(received)


\* ------------------------------------------------------ reading the history
\* The requests sent and the responses received in session k, in order.
SentOf(k) == SelectSeq(sent, LAMBDA r : r.session = k)
ReceivedOf(k) == SelectSeq(received, LAMBDA r : r.session = k)

\* The sessions opened so far.
Sessions == 1..Len(opened)

\* Session k read its file to the end (its loop was left on an empty read).
SessionDone(k) ==
    \/ /\ args.command = "upload"
       /\ k <= n_uploaded_files
    \/ /\ args.command = "annotate"
       /\ k = 1
       /\ \E i \in 1..Len(output) : output[i].kind = "annotation_complete"

\* The run is over: the function returned or an exception left it.
Ended == pc \in {"returned", "raised"}

CeilDiv(s, c) == (s + c - 1) \div c

\* The chunk lengths of the requests of session k.
Lengths(k) == [ i \in 1..Len(SentOf(k)) |-> SentOf(k)[i].len ]

\* ------------------------------------------------------------------- C1
\* C1: a session in which every request was answered 200 and which read its
\* file to the end sent exactly ceil(s / c) requests (none for s = 0), each
\* but the last of exactly c bytes, the last of 1..c bytes, s bytes in all.
C1_ChunkCount ==
    \A k \in Sessions :
        SessionDone(k) =>
            LET q == Lengths(k)
                s == opened[k]
            IN  /\ \A i \in 1..Len(ReceivedOf(k)) :
                        ReceivedOf(k)[i].response.status_code = 200
                /\ Len(q) = CeilDiv(s, chunk_size)
                /\ s = 0 => Len(q) = 0
                /\ \A i \in 1..(Len(q) - 1) : q[i] = chunk_size
                /\ Len(q) > 0 => q[Len(q)] \in 1..chunk_size
                /\ Sum(q) = s

\* A 3-byte file sent with chunk_size 2 as chunks of 2 and 1 bytes.
C1_Witness ==
    \E k \in Sessions :
        /\ SessionDone(k)
        /\ opened[k] = 3
        /\ chunk_size = 2
        /\ Lengths(k) = <<2, 1>>

\* ------------------------------------------------------------------- C2
\* C2 as stated: when the function has returned, in every session the
\* requests flagged is_last_chunk = "true" are exactly the final request of
\* the session.
C2_LastFlagOnFinalRequest ==
    pc = "returned" =>
        \A k \in Sessions :
            \A i \in 1..Len(SentOf(k)) :
                (SentOf(k)[i].data.is_last_chunk = "true") <=> (i = Len(SentOf(k)))

\* C2 amended: a request is flagged is_last_chunk = "true" exactly when its
\* chunk ends at total_size (also when the size is a multiple of
\* chunk_size); a flagged request is the final request of its session, and
\* a session that read its file to the end and sent a request has its final
\* request flagged.  (A session cut short by a failed request has no flagged
\* request.)
C2_LastFlagAtTotalSize ==
    \A k \in Sessions :
        LET q == SentOf(k)
        IN  /\ \A i \in 1..Len(q) :
                  /\ q[i].data.is_last_chunk \in {"true", "false"}
                  /\ (q[i].data.is_last_chunk = "true")
                        <=> (q[i].data.offset + q[i].len = q[i].data.total_size)
                  /\ q[i].data.is_last_chunk = "true" => i = Len(q)
            /\ (SessionDone(k) /\ Len(q) > 0) =>
                  q[Len(q)].data.is_last_chunk = "true"

\* A 4-byte file sent with chunk_size 2: the second chunk ends exactly at
\* total_size and is flagged, the first is not.
C2_Witness ==
    \E k \in Sessions :
        /\ SessionDone(k)
        /\ opened[k] = 4
        /\ chunk_size = 2
        /\ Len(SentOf(k)) = 2
        /\ SentOf(k)[1].data.is_last_chunk = "false"
        /\ SentOf(k)[2].data.is_last_chunk = "true"
        /\ SentOf(k)[2].len = chunk_size


\* ------------------------------------------------------------------- C3
\* The response carries an upload_id that is not empty.
Supplies(r) ==
    /\ r.response.body.kind = "json"
    /\ "upload_id" \in DOMAIN r.response.body.data
    /\ r.response.body.data.upload_id # ""

\* C3: once a response of a session supplied an upload_id, every later
\* request of that session carries exactly that value, and while the
\* session is in progress its upload_id is that value.
C3_UploadIdImmutable ==
    \A k \in Sessions :
        LET q == SentOf(k)
            a == ReceivedOf(k)
        IN  \A i \in 1..Len(a) :
                (Supplies(a[i]) /\ \A h \in 1..(i - 1) : ~Supplies(a[h])) =>
                    /\ \A j \in (i + 1)..Len(q) :
                          /\ "upload_id" \in DOMAIN q[j].data
                          /\ q[j].data.upload_id = a[i].response.body.data.upload_id
                    /\ k = Session => upload_id = a[i].response.body.data.upload_id

\* ------------------------------------------------------------------- C4
\* C4: after a response with a status other than 200, whatever its body,
\* no further request is sent and the function has returned without an
\* exception.
C4_Non200Returns ==
    \A i \in 1..Len(received) :
        received[i].response.status_code # 200 =>
            /\ i = Len(sent)
            /\ pc = "returned"
            /\ exception = None

\* ------------------------------------------------------------------- C5
\* A request left the network without a response: a transport error.
TransportFailed == network = {} /\ Len(sent) > Len(received)

\* C5: after a transport error the upload is aborted, a failure message
\* naming the file and holding the contact string has been printed, and the
\* function has returned without an exception.
C5_TransportErrorReported ==
    TransportFailed =>
        /\ pc = "returned"
        /\ exception = None
        /\ \E i \in 1..Len(output) :
              /\ output[i].kind = "failed"
              /\ output[i].file = file_name
              /\ output[i].contact = contact_message

\* ------------------------------------------------------------------- C6
\* C6: the part_number of the i-th request of a session is i.
C6_PartNumbers ==
    \A k \in Sessions :
        \A i \in 1..Len(SentOf(k)) : SentOf(k)[i].data.part_number = i

\* A session that sent requests numbered 1, 2, 3.
C6_Witness ==
    \E k \in Sessions :
        /\ Len(SentOf(k)) = 3
        /\ SentOf(k)[3].data.part_number = 3

\* ------------------------------------------------------------------- C7
\* C7: a request carries an upload_id only if an earlier response of the
\* same session supplied that value; the first request of every session
\* carries none.
C7_UploadIdFromOwnSession ==
    \A k \in Sessions :
        LET q == SentOf(k)
            a == ReceivedOf(k)
        IN  \A j \in 1..Len(q) :
                "upload_id" \in DOMAIN q[j].data =>
                    /\ j > 1
                    /\ \E i \in 1..(j - 1) :
                          /\ i <= Len(a)
                          /\ Supplies(a[i])
                          /\ a[i].response.body.data.upload_id = q[j].data.upload_id

\* The first session ended holding an upload_id, and the second session has
\* sent its first request, then a request with an upload_id of its own.
C7_Witness ==
    /\ Len(opened) >= 2
    /\ Len(ReceivedOf(1)) >= 1
    /\ Supplies(ReceivedOf(1)[Len(ReceivedOf(1))])
    /\ ReceivedOf(1)[Len(ReceivedOf(1))].response.body.data.upload_id = "A"
    /\ Len(SentOf(2)) >= 2
    /\ "upload_id" \notin DOMAIN SentOf(2)[1].data
    /\ "upload_id" \in DOMAIN SentOf(2)[2].data
    /\ SentOf(2)[2].data.upload_id = "B"

\* ------------------------------------------------------------------- C8
\* C8: bytes_uploaded never exceeds total_size, and every request ends at
\* or before total_size, total_size being the size read when the file was
\* opened.
C8_WithinTotalSize ==
    /\ uploaded <= file_size
    /\ Sessions # {} => file_size = opened[Session]
    /\ \A i \in 1..Len(sent) :
          /\ sent[i].data.total_size = opened[sent[i].session]
          /\ sent[i].data.offset + sent[i].len <= sent[i].data.total_size

\* Two chunks were acknowledged and bytes_uploaded has reached total_size.
C8_Witness ==
    /\ Sessions # {}
    /\ Len(ReceivedOf(Session)) >= 2
    /\ uploaded = file_size
    /\ file_size = 3

\* ------------------------------------------------------------------- C9
\* C9: in a batch, a request carries is_last_file = TRUE exactly when its
\* file is the last of the matching files.
C9_IsLastFile ==
    args.command = "upload" =>
        \A i \in 1..Len(sent) :
            sent[i].data.is_last_file
                <=> (sent[i].session = Len(MatchingFiles(args.fastq_dir)))

\* Requests of both files of a batch of two: FALSE on the first file's,
\* TRUE on the second's.
C9_Witness ==
    /\ args.command = "upload"
    /\ Len(MatchingFiles(args.fastq_dir)) = 2
    /\ Len(SentOf(1)) >= 1
    /\ Len(SentOf(2)) >= 1
    /\ ~SentOf(1)[1].data.is_last_file
    /\ SentOf(2)[1].data.is_last_file

\* ------------------------------------------------------------------ C10
\* The position in the directory listing of the file of a batch request.
ListingPosition(r) ==
    CHOOSE p \in 1..Len(args.fastq_dir) :
        /\ EndsWithFastqGz(args.fastq_dir[p].name)
        /\ Cardinality({ h \in 1..p : EndsWithFastqGz(args.fastq_dir[h].name) })
              = r.session

\* At most one request is in flight, one only while the function waits for
\* it, and the requests of a batch follow the order of the directory listing.
OneInFlight ==
    /\ Cardinality(network) <= 1
    /\ network # {} =>
          /\ pc \in {"wait", "ann_wait"}
          /\ network = {sent[Len(sent)]}
          /\ Len(received) = Len(sent) - 1
    /\ args.command = "upload" =>
          \A i, j \in 1..Len(sent) :
              i < j =>
                  /\ ListingPosition(sent[i]) <= ListingPosition(sent[j])
                  /\ sent[i].data.filename
                        = BaseName(args.fastq_dir[ListingPosition(sent[i])])

\* C10: uploads are strictly sequential: OneInFlight holds always, and the
\* file is read only when no request is in flight and every request sent
\* has had its response.
C10_Sequential ==
    /\ []OneInFlight
    /\ [][file_pos' # file_pos =>
             (network = {} /\ Len(received) = Len(sent))]_vars

\* Both files of a batch listed with another entry between them have sent
\* requests, and a second chunk was read after the first response.
C10_Witness ==
    /\ args.command = "upload"
    /\ Len(args.fastq_dir) = 3
    /\ ~EndsWithFastqGz(args.fastq_dir[2].name)
    /\ Len(SentOf(1)) >= 2
    /\ Len(SentOf(2)) >= 1
    /\ network # {}


\* ------------------------------------------------------------------ C11
\* The file of session k: the base name of the real path of the k-th
\* matching entry, or of the annotation file.
FileOf(k) ==
    IF args.command = "upload"
    THEN MatchingFiles(args.fastq_dir)[k].real
    ELSE args.annotation_file.real

\* What a chunk request says apart from the fields annotation and
\* is_last_file; upload_id is <<>> when the request carries none.
Common(r) ==
    [ len           |-> r.len,
      filename      |-> r.data.filename,
      offset        |-> r.data.offset,
      total_size    |-> r.data.total_size,
      part_number   |-> r.data.part_number,
      is_last_chunk |-> r.data.is_last_chunk,
      name          |-> r.data.name,
      email         |-> r.data.email,
      upload_id     |-> IF "upload_id" \in DOMAIN r.data
                        THEN <<r.data.upload_id>> ELSE <<>> ]

RECURSIVE ProtocolRun(_, _, _, _, _, _, _)
\* The chunk requests of one session as a function of the file, chunk_size
\* and the responses received so far: the requests already answered and the
\* one that follows them, if any.  up, part and uid are the session state
\* before the first of the responses resps.
ProtocolRun(fname, size, c, resps, up, part, uid) ==
    LET len == IF size - up < c THEN size - up ELSE c
        req == [ len           |-> len,
                 filename      |-> fname,
                 offset        |-> up,
                 total_size    |-> size,
                 part_number   |-> part,
                 is_last_chunk |-> IF up + len >= size THEN "true" ELSE "false",
                 name          |-> "experiment",
                 email         |-> "user@example.org",
                 upload_id     |-> IF uid \in {None, ""} THEN <<>> ELSE <<uid>> ]
    IN  IF len = 0 THEN <<>>
        ELSE IF resps = <<>> THEN <<req>>
        ELSE LET r == Head(resps).response
             IN  IF r.body.kind # "json" \/ r.status_code # 200
                 THEN <<req>>
                 ELSE <<req>> \o
                      ProtocolRun(fname, size, c, Tail(resps), up + len, part + 1,
                                  IF "upload_id" \in DOMAIN r.body.data
                                  THEN r.body.data.upload_id ELSE uid)

\* Session k is about to read its next chunk.
Reading(k) == k = Session /\ pc \in {"read", "ann_read"}

\* The last response of session k, if it has one, satisfies P.
LastResponseIs(k, P(_)) ==
    /\ ReceivedOf(k) # <<>>
    /\ P(ReceivedOf(k)[Len(ReceivedOf(k))].response)

IsText(r) == r.body.kind # "json"
IsRefusal(r) == r.body.kind = "json" /\ r.status_code # 200

\* C11: in upload_annotation and in upload_fastq alike, the requests of a
\* session are the same function ProtocolRun of the file, chunk_size and the
\* server's responses (chunk bytes, filename, offset, total_size,
\* part_number, is_last_chunk, upload_id), and the session stops at the same
\* point: on the empty read, on a non-200 response (returning if the body is
\* JSON, raising if it is not).  The two differ in that annotation requests
\* carry annotation = "True" and no is_last_file, FASTQ requests carry
\* annotation = "False" and is_last_file.
C11_SameProtocol ==
    \A k \in Sessions :
        LET q   == SentOf(k)
            run == ProtocolRun(FileOf(k), opened[k], chunk_size, ReceivedOf(k),
                               0, 1, None)
        IN  /\ Len(q) <= Len(run)
            /\ \A i \in 1..Len(q) : Common(q[i]) = run[i]
            /\ Reading(k) \/ Len(q) = Len(run)
            /\ \A i \in 1..Len(q) :
                  IF args.command = "annotate"
                  THEN /\ q[i].data.annotation = "True"
                       /\ "is_last_file" \notin DOMAIN q[i].data
                  ELSE /\ q[i].data.annotation = "False"
                       /\ "is_last_file" \in DOMAIN q[i].data
            /\ (k = Session /\ pc = "raised" /\ exception = "JSONDecodeError")
                  <=> LastResponseIs(k, IsText)
            /\ (k = Session /\ pc = "returned"
                  /\ \E i \in 1..Len(output) : output[i].kind = "failed")
                  <=> LastResponseIs(k, IsRefusal)
            /\ SessionDone(k) =>
                  /\ Len(ReceivedOf(k)) = Len(run)
                  /\ ~LastResponseIs(k, IsText)
                  /\ ~LastResponseIs(k, IsRefusal)

\* upload_annotation has sent three chunks of a file, the third with the
\* upload_id of the second response, which differs from that of the first.
C11_Witness ==
    /\ args.command = "annotate"
    /\ Len(SentOf(1)) = 3
    /\ Common(SentOf(1)[1]).upload_id = <<>>
    /\ Common(SentOf(1)[2]).upload_id = <<"A">>
    /\ Common(SentOf(1)[3]).upload_id = <<"B">>
    /\ SentOf(1)[3].data.is_last_chunk = "true"
    /\ SessionDone(1)


\* ------------------------------------------------------------------ C12
\* The number of entries of the directory whose name ends in .fastq.gz.
NumMatching ==
    Cardinality({ p \in 1..Len(args.fastq_dir) :
                     EndsWithFastqGz(args.fastq_dir[p].name) })

\* Some chunk request of the run failed: it was answered with a status other
\* than 200 or it had no answer.
SomeChunkFailed ==
    \/ \E i \in 1..Len(received) : received[i].response.status_code # 200
    \/ TransportFailed

\* The success summary of upload_fastq was printed.
SummaryPrinted == \E i \in 1..Len(output) : output[i].kind = "complete"

\* C12: the summary of upload_fastq reports n_uploaded_files = n_files = the
\* number of matching files, it is printed when the function returns with no
\* failed chunk and never in a run with a failed chunk, and with no matching
\* file no request is sent and the summary reports 0/0.
C12_SummaryCounts ==
    args.command = "upload" =>
        /\ \A i \in 1..Len(output) :
              output[i].kind = "complete" =>
                  /\ output[i].uploaded = NumMatching
                  /\ output[i].files = NumMatching
                  /\ ~SomeChunkFailed
                  /\ NumMatching = 0 => sent = <<>>
        /\ (pc = "returned" /\ ~SomeChunkFailed) => SummaryPrinted
        /\ (pc = "returned" /\ NumMatching = 0) =>
              /\ SummaryPrinted
              /\ sent = <<>>

\* A batch of two files, at least two chunks, completed and reported as 2/2.
C12_Witness ==
    /\ args.command = "upload"
    /\ Len(sent) >= 2
    /\ \E i \in 1..Len(output) :
          /\ output[i].kind = "complete"
          /\ output[i].uploaded = 2
          /\ output[i].files = 2


\* ------------------------------------------------------------------ C13
\* C13: upload_fastq opens a session for the entries whose name ends in
\* .fastq.gz and for no other (as many sessions as matching entries once
\* the batch is complete), and every chunk request carries a filename that
\* ends in .fastq.gz.
C13_OnlyFastqGz ==
    args.command = "upload" =>
        /\ Len(opened) <= NumMatching
        /\ SummaryPrinted => Len(opened) = NumMatching
        /\ \A i \in 1..Len(sent) : EndsWithFastqGz(sent[i].data.filename)


\* ------------------------------------------------------------------ C14
\* C14: in a batch, a response with a status other than 200 is the last
\* event of the run: it answers the last request sent, no request follows
\* it for that file, no later file is opened, and the function is left.
C14_FailureAbortsBatch ==
    args.command = "upload" =>
        \A i \in 1..Len(received) :
            received[i].response.status_code # 200 =>
                /\ i = Len(received)
                /\ i = Len(sent)
                /\ network = {}
                /\ Len(opened) = received[i].session
                /\ Ended

\* The first file of a batch of two failed on its second chunk: the second
\* file was never opened and no request carries is_last_file.
C14_Witness ==
    /\ args.command = "upload"
    /\ NumMatching = 2
    /\ Len(opened) = 1
    /\ Len(sent) = 2
    /\ Len(received) = 2
    /\ received[2].response.status_code # 200
    /\ \A i \in 1..Len(sent) : ~sent[i].data.is_last_file
    /\ Ended


\* ------------------------------------------------------------------ C15
\* The step receives a response with status 200.
Acknowledged ==
    /\ Len(received') = Len(received) + 1
    /\ received'[Len(received')].response.status_code = 200

\* The step receives a response with another status.
Refused ==
    /\ Len(received') = Len(received) + 1
    /\ received'[Len(received')].response.status_code # 200

\* C15: within a session bytes_uploaded, part_number and the progress
\* indicator change only in a step that receives a 200: that step adds the
\* length of the chunk just sent to bytes_uploaded and to the progress
\* indicator and 1 to part_number; every other step, a non-200 response
\* included, leaves the three unchanged (opening a file starts them at 0, 1
\* and 0), and the progress indicator always equals bytes_uploaded.
C15_CountersFrame ==
    /\ [](progress_bar = uploaded)
    /\ [][ IF Len(opened') > Len(opened)
           THEN uploaded' = 0 /\ part_number' = 1 /\ progress_bar' = 0
           ELSE IF Acknowledged
           THEN /\ uploaded' = uploaded + sent[Len(sent)].len
                /\ progress_bar' = progress_bar + sent[Len(sent)].len
                /\ part_number' = part_number + 1
           ELSE /\ UNCHANGED << uploaded, part_number, progress_bar >>
                /\ Refused => Ended' ]_vars

\* One chunk of two bytes was acknowledged and the next was answered with a
\* status other than 200: the counters stand at 2, 2 and part 2.
C15_Witness ==
    /\ Len(received) = 2
    /\ received[1].response.status_code = 200
    /\ received[2].response.status_code # 200
    /\ sent[1].len = 2
    /\ uploaded = 2
    /\ progress_bar = 2
    /\ part_number = 2


\* ------------------------------------------------------------------ C16
\* C16: the offset of the i-th request of a session is the total length of
\* the i - 1 requests before it, each of which was answered 200, which is
\* (part_number - 1) * chunk_size; the byte ranges of two requests of a
\* session do not overlap and come in increasing order.
C16_Offsets ==
    \A k \in Sessions :
        LET q == SentOf(k)
            a == ReceivedOf(k)
        IN  \A i \in 1..Len(q) :
                /\ q[i].data.offset = Sum(SubSeq(Lengths(k), 1, i - 1))
                /\ q[i].data.offset = (q[i].data.part_number - 1) * chunk_size
                /\ \A h \in 1..(i - 1) :
                      /\ h <= Len(a)
                      /\ a[h].response.status_code = 200
                      /\ q[h].data.offset + q[h].len <= q[i].data.offset
                      /\ q[h].data.offset < q[i].data.offset

\* A session sent chunks at offsets 0 and 2 with chunk_size 2.
C16_Witness ==
    \E k \in Sessions :
        /\ chunk_size = 2
        /\ Len(SentOf(k)) = 2
        /\ SentOf(k)[1].data.offset = 0
        /\ SentOf(k)[2].data.offset = 2
        /\ SentOf(k)[2].len = 1


\* ------------------------------------------------------------------ C17
\* C17: when the 200 response to the first chunk of a session has no
\* upload_id the uploader raises, and no request with part_number >= 2 is
\* sent without an upload_id.
C17_MissingUploadIdRaises ==
    /\ \A k \in Sessions :
          LET a == ReceivedOf(k)
          IN  ( /\ a # <<>>
                /\ a[1].response.status_code = 200
                /\ "upload_id" \notin DOMAIN a[1].response.body.data )
              => (k = Session /\ pc = "raised")
    /\ \A i \in 1..Len(sent) :
          sent[i].data.part_number >= 2 => "upload_id" \in DOMAIN sent[i].data

\* ------------------------------------------------------------------ C18
\* C18: when upload_fastq has printed its summary for a batch of at least
\* one matching file, the last request of the run carried is_last_file =
\* TRUE and is_last_chunk = "true".
C18_FinalizeSent ==
    (args.command = "upload" /\ SummaryPrinted /\ NumMatching >= 1) =>
        /\ sent # <<>>
        /\ sent[Len(sent)].data.is_last_file
        /\ sent[Len(sent)].data.is_last_chunk = "true"


\* ------------------------------------------------------------------ C19
\* The steps of a run in which the server answers every request: no
\* request fails in transport.
NextAnswered ==
    \/ ListFiles
    \/ OpenFile
    \/ SendChunk
    \/ EndOfFile
    \/ Respond
    \/ Complete
    \/ AnnOpenFile
    \/ AnnSendChunk
    \/ AnnEndOfFile
    \/ AnnRespond

\* The script is one sequential process that takes its next step whenever
\* it has one, and every request is answered.
LiveSpec == Init /\ [][NextAnswered]_vars /\ WF_vars(NextAnswered)

\* Every file of the run was opened and its loop ended on an empty read with
\* all of its bytes sent and acknowledged.
Completed ==
    /\ pc = "returned"
    /\ args.command = "upload" => Len(opened) = NumMatching
    /\ args.command = "annotate" => Len(opened) = 1
    /\ \A k \in Sessions :
          /\ SessionDone(k)
          /\ Sum(Lengths(k)) = opened[k]
          /\ Len(ReceivedOf(k)) = Len(SentOf(k))
    /\ uploaded = file_size

\* Some chunk was answered with a status other than 200.
Aborted ==
    \E i \in 1..Len(received) : received[i].response.status_code # 200

\* The sum over the files opened of ceil(size / chunk_size).
RECURSIVE RequestBudget(_)
RequestBudget(sizes) ==
    IF sizes = <<>> THEN 0
    ELSE CeilDiv(Head(sizes), chunk_size) + RequestBudget(Tail(sizes))

\* C19: with a server that answers every request the run ends, it ends
\* either completed or aborted and never both, and the number of requests
\* sent never exceeds the sum over the files of ceil(size / chunk_size).
C19_Terminates ==
    /\ <>Ended
    /\ [](Ended => (Completed /\ ~Aborted) \/ (Aborted /\ ~Completed))
    /\ [](Len(sent) <= RequestBudget(opened))

\* A batch of two files ended completed with as many requests as the sum
\* of ceil(size / chunk_size) allows, four of them.
C19_Witness ==
    /\ Ended
    /\ Completed
    /\ Len(opened) = 2
    /\ Len(sent) = 4
    /\ Len(sent) = RequestBudget(opened)

=============================================================================
